---- MODULE Spec2Model ----
(***************************************************************************)
(* The drawing board of the whiteboard application: the board reducer      *)
(* (store/BoardProvider.js), the handlers that dispatch to it, and the     *)
(* element factory, mutator and hit-tester (utils/element.js).             *)
(*                                                                         *)
(* JavaScript objects are modelled by a heap: an element object is a       *)
(* record stored under a reference (a natural number), and an array of     *)
(* elements is a sequence of references.  Two arrays may share an element  *)
(* object, exactly as in the program; an assignment to a field of an       *)
(* object is an update of the heap and is seen through every array that    *)
(* holds the reference.  Arrays themselves are never modified after they   *)
(* are shared (the code always copies them first), so they are values.     *)
(***************************************************************************)
EXTENDS Integers, Sequences, FiniteSets, TLC

VARIABLES
    activeToolItem,   \* state.activeToolItem
    toolActionType,   \* state.toolActionType
    elements,         \* state.elements: sequence of references, or UndefinedArray
    history,          \* state.history: sequence of snapshots (each as elements)
    index,            \* state.index
    selectedElement,  \* state.selectedElement: a reference, or NULL
    heap,             \* the element objects that are reachable, by reference
    threw,            \* "" or the error the reducer threw (the render is then aborted)
    roundTrip,        \* the user's progress through an undo/redo round trip
    call              \* the last call of a function of utils/element.js made on
                      \* its own, with its arguments and its result

vars == <<activeToolItem, toolActionType, elements, history, index,
          selectedElement, heap, threw, roundTrip, call>>

----------------------------------------------------------------------------
(* Bounds of the model. *)

\* DRAW_DOWN is not taken once the live collection holds this many entries.
MaxElements == 2
\* No snapshot is appended once history holds this many snapshots.
MaxHistory == 3
\* A freehand stroke is not extended beyond this many points.
MaxPoints == 2

\* Pointer positions of the mouse events (clientX, clientY): where the button
\* is pressed, where the pointer is dragged to while drawing, and where it
\* passes while erasing.
PressPoints == { <<0, 0>> }
DragPoints == { <<8, 0>> }
ErasePoints == { <<0, 0>>, <<8, 0>> }
\* Values of the text area on blur.
Texts == { "hi" }
\* The tools the toolbar is asked for: the freehand tool (the initial tool),
\* text and the eraser.
Tools == { "BRUSH", "TEXT", "ERASER" }

----------------------------------------------------------------------------
(* JavaScript values that are not numbers, strings or objects. *)

\* null, where a number or a reference is expected
NULL == -999
\* undefined, where a number or an array entry is expected
UNDEFINED == -998
\* an empty slot of a sparse array (reads as undefined, skipped by filter)
EMPTY == -997
\* the value undefined where an array is expected
UndefinedArray == << -996 >>
\* undefined, where a string is expected
UNDEF == "undefined"

IsRef(v) == v >= 0

----------------------------------------------------------------------------
(* constants.js *)

TOOL_ITEMS == { "BRUSH", "LINE", "RECTANGLE", "CIRCLE", "ARROW", "TEXT", "ERASER" }
DRAW_TOOL_ITEMS == { "BRUSH", "LINE", "RECTANGLE", "CIRCLE", "ARROW" }
TOOL_ACTION_TYPES == { "NONE", "DRAWING", "WRITING", "ERASING" }
BOARD_ACTIONS == { "CHANGE_TOOL", "CHANGE_ACTION_TYPE", "DRAW_DOWN", "DRAW_MOVE",
                   "DRAW_UP", "ERASE", "CHANGE_TEXT", "UNDO", "REDO" }

\* Distances are computed in units of 1/DistScale of a pixel.
DistScale == 10
\* ELEMENT_ERASE_THRESHOLDS.LINE, in units of 1/DistScale of a pixel.
ELEMENT_ERASE_THRESHOLD_LINE == 10

\* The toolbox settings the handlers read for the active tool
\* (toolboxState[tool]?.stroke, ?.fill, ?.size).
ToolboxStroke(tool) == "black"
ToolboxFill(tool) == IF tool \in { "RECTANGLE", "CIRCLE" } THEN "white" ELSE UNDEF
ToolboxSize(tool) == 1

----------------------------------------------------------------------------
(* Element objects.  Every record has all fields; a field the JavaScript   *)
(* object does not have holds undefined, which is what reading it yields.  *)

NoTextEle == [text |-> UNDEF, stroke |-> UNDEF, size |-> UNDEFINED]

NoElement ==
    [id |-> UNDEFINED, type |-> UNDEF,
     x1 |-> UNDEFINED, y1 |-> UNDEFINED, x2 |-> UNDEFINED, y2 |-> UNDEFINED,
     points |-> << >>, stroke |-> UNDEF, fill |-> UNDEF, size |-> UNDEFINED,
     width |-> UNDEFINED, height |-> UNDEFINED,
     centerX |-> UNDEFINED, centerY |-> UNDEFINED,
     textEle |-> NoTextEle, thrown |-> ""]

\* The options argument { type, text, stroke, fill, size }.
Options(type, text, stroke, fill, size) ==
    [type |-> type, text |-> text, stroke |-> stroke, fill |-> fill, size |-> size]

\* createRoughElement: the element object built, or a record whose thrown
\* field names the error.  The rendering descriptors (roughEle, path) are
\* derived from the fields kept here and are not stored.  The coordinates of
\* a shape are numbers (the pointer's, or those of the element it replaces).
createRoughElement(id, x1, y1, x2, y2, options) ==
    LET type == options.type
        stroke == options.stroke
        fill == options.fill
        size == options.size
    IN  IF type = "BRUSH" THEN
            [NoElement EXCEPT !.id = id, !.points = << <<x1, y1>> >>,
                              !.type = type, !.stroke = stroke, !.size = size]
        ELSE IF type = "LINE" THEN
            [NoElement EXCEPT !.id = id, !.x1 = x1, !.y1 = y1, !.x2 = x2, !.y2 = y2,
                              !.type = type, !.stroke = stroke, !.size = size]
        ELSE IF type = "RECTANGLE" THEN
            [NoElement EXCEPT !.id = id, !.x1 = x1, !.y1 = y1, !.x2 = x2, !.y2 = y2,
                              !.type = type, !.stroke = stroke, !.fill = fill,
                              !.size = size]
        ELSE IF type = "CIRCLE" THEN
            [NoElement EXCEPT !.id = id, !.x1 = x1, !.y1 = y1, !.x2 = x2, !.y2 = y2,
                              !.type = type,
                              !.width = x2 - x1, !.height = y2 - y1,
                              !.centerX = (x1 + x2) \div 2,
                              !.centerY = (y1 + y2) \div 2,
                              !.stroke = stroke, !.fill = fill, !.size = size]
        ELSE IF type = "ARROW" THEN
            [NoElement EXCEPT !.id = id, !.x1 = x1, !.y1 = y1, !.x2 = x2, !.y2 = y2,
                              !.type = type, !.stroke = stroke, !.size = size]
        ELSE IF type = "TEXT" THEN
            [NoElement EXCEPT !.id = id, !.type = type,
                              !.x1 = x1, !.y1 = y1, !.x2 = x2, !.y2 = y2,
                              !.textEle = [text |-> IF options.text \in { UNDEF, "" }
                                                    THEN "" ELSE options.text,
                                           stroke |-> stroke, size |-> size]]
        ELSE [NoElement EXCEPT !.thrown = "Error"]

----------------------------------------------------------------------------
(* utils/math.js (appended to element.js) *)

\* Math.sqrt, in units of 1/DistScale and rounded down: the largest r with
\* r * r <= n * DistScale^2.
Sqrt(n) ==
    LET m == n * DistScale * DistScale
    IN  CHOOSE r \in 0..m : r * r <= m /\ (r + 1) * (r + 1) > m

\* distanceBetweenPoints
distanceBetweenPoints(x1, y1, x2, y2) ==
    LET dx == x2 - x1
        dy == y2 - y1
    IN  Sqrt(dx * dx + dy * dy)

Abs(v) == IF v < 0 THEN -v ELSE v

\* A test that leaves out the two ends of the segment.
isPointInsideLine(x1, y1, x2, y2, pointX, pointY) ==
    LET distToStart == distanceBetweenPoints(x1, y1, pointX, pointY)
        distToEnd == distanceBetweenPoints(x2, y2, pointX, pointY)
        distLine == distanceBetweenPoints(x1, y1, x2, y2)
    IN  /\ distToStart > 0 /\ distToEnd > 0
        /\ Abs(distToStart + distToEnd - distLine) < ELEMENT_ERASE_THRESHOLD_LINE

\* isPointCloseToLine
isPointCloseToLine(x1, y1, x2, y2, pointX, pointY) ==
    LET distToStart == distanceBetweenPoints(x1, y1, pointX, pointY)
        distToEnd == distanceBetweenPoints(x2, y2, pointX, pointY)
        distLine == distanceBetweenPoints(x1, y1, x2, y2)
    IN  Abs(distToStart + distToEnd - distLine) < ELEMENT_ERASE_THRESHOLD_LINE

----------------------------------------------------------------------------
(* The canvas context the hit-tester asks (the rendering surface). *)

\* context.measureText(text).width with the font of the text element.
MeasureTextWidth(text) == IF text = "hi" THEN 8 ELSE 0

\* context.isPointInPath(element.path, pointX, pointY): the outline of a
\* stroke covers the points the stroke was sampled at.
IsPointInPath(points, pointX, pointY) ==
    \E i \in DOMAIN points : points[i] = <<pointX, pointY>>

\* The types isPointNearElement has a case for; it throws on any other.
HitTestedTypes == { "LINE", "ARROW", "RECTANGLE", "CIRCLE", "TEXT", "BRUSH" }

\* isPointNearElement, for an element object of a recognized type.  The
\* coordinates it reads are numbers: a shape and a text element are only
\* ever built from the pointer's position or from those of the element they
\* replace.
isPointNearElement(element, pointX, pointY) ==
    LET x1 == element.x1
        y1 == element.y1
        x2 == element.x2
        y2 == element.y2
        type == element.type
    IN  IF type \in { "LINE", "ARROW" } THEN
            isPointCloseToLine(x1, y1, x2, y2, pointX, pointY)
        ELSE IF type = "RECTANGLE" THEN
            \/ isPointCloseToLine(x1, y1, x2, y1, pointX, pointY)
            \/ isPointCloseToLine(x2, y1, x2, y2, pointX, pointY)
            \/ isPointCloseToLine(x2, y2, x1, y2, pointX, pointY)
            \/ isPointCloseToLine(x1, y2, x1, y1, pointX, pointY)
        ELSE IF type = "CIRCLE" THEN
            LET halfW == element.width \div 2
                halfH == element.height \div 2
                rectx1 == element.centerX - halfW
                recty1 == element.centerY - halfH
                rectx2 == element.centerX + halfW
                recty2 == element.centerY - halfH
                rectx3 == element.centerX + halfW
                recty3 == element.centerY + halfH
                rectx4 == element.centerX - halfW
                recty4 == element.centerY + halfH
            IN  \/ isPointCloseToLine(rectx1, recty1, rectx2, recty2, pointX, pointY)
                \/ isPointCloseToLine(rectx2, recty2, rectx3, recty3, pointX, pointY)
                \/ isPointCloseToLine(rectx3, recty3, rectx4, recty4, pointX, pointY)
                \/ isPointCloseToLine(rectx4, recty4, rectx1, recty1, pointX, pointY)
        ELSE IF type = "TEXT" THEN
            LET textWidth == MeasureTextWidth(element.textEle.text)
                textHeight == element.textEle.size   \* parseInt(size)
                right == x1 + textWidth
                bottom == y1 + textHeight
            IN  \/ isPointCloseToLine(x1, y1, right, y1, pointX, pointY)
                \/ isPointCloseToLine(right, y1, right, bottom, pointX, pointY)
                \/ isPointCloseToLine(right, bottom, x1, bottom, pointX, pointY)
                \/ isPointCloseToLine(x1, bottom, x1, y1, pointX, pointY)
        ELSE IF type = "BRUSH" THEN
            IsPointInPath(element.points, pointX, pointY)
        ELSE FALSE

----------------------------------------------------------------------------
(* Arrays and objects. *)

\* A reference no object of the heap has: what creating an object yields.
NewRef(h) ==
    CHOOSE r \in 0..Cardinality(DOMAIN h) :
        r \notin DOMAIN h /\ \A q \in 0..(r - 1) : q \in DOMAIN h

\* arr[i] for a 0-based i: undefined outside the array and at an empty slot.
At(arr, i) ==
    IF i >= 0 /\ i < Len(arr) /\ IsRef(arr[i + 1]) THEN arr[i + 1] ELSE UNDEFINED

\* [...arr]: a copy in which the empty slots are undefined entries.
Spread(arr) == [i \in DOMAIN arr |-> IF arr[i] = EMPTY THEN UNDEFINED ELSE arr[i]]

\* arr[i] = v on a copy, for a 0-based i: an index past the end leaves
\* empty slots between the old end and i.
SetAt(arr, i, v) ==
    [k \in 1..(IF i + 1 > Len(arr) THEN i + 1 ELSE Len(arr)) |->
        IF k = i + 1 THEN v ELSE IF k <= Len(arr) THEN arr[k] ELSE EMPTY]

\* arr.slice(0, n)
Slice(arr, n) == SubSeq(arr, 1, IF n < Len(arr) THEN n ELSE Len(arr))

----------------------------------------------------------------------------
(* utils/element.js: the element mutator *)

\* What getUpdatedElements returns: the array (UndefinedArray when the
\* function returns nothing), the heap after it, and the error thrown if any.
Updated(arr, h, err) == [elements |-> arr, heap |-> h, thrown |-> err]

\* A stroke that forgets its samples: the new sample alone.
PointsRestarted(points, x2, y2) == << <<x2, y2>> >>

\* [...elements[id].points, { x: x2, y: y2 }]
ExtendedPoints(points, x2, y2) == Append(points, <<x2, y2>>)

\* getUpdatedElements(elements, id, x1, y1, x2, y2, options), on heap h.
\* In the shape cases the block-scoped declaration of x1, y1, type, text,
\* stroke, fill and size hides the parameters of the same names: the values
\* used are those of elements[id].  The same declaration is in scope, and
\* not yet initialized, where the default case reads type.
getUpdatedElements(arr, h, id, x1, y1, x2, y2, options) ==
    LET elementsCopy == Spread(arr)
        e == At(arr, id)
    IN  IF options.type \in { "LINE", "RECTANGLE", "CIRCLE", "ARROW" } THEN
            IF ~IsRef(e) THEN Updated(arr, h, "TypeError")
            ELSE LET old == h[e]
                     new == createRoughElement(id, old.x1, old.y1, x2, y2,
                                Options(old.type, UNDEF, old.stroke, old.fill, old.size))
                     r == NewRef(h)
                 IN  IF new.thrown # "" THEN Updated(arr, h, new.thrown)
                     ELSE Updated(SetAt(elementsCopy, id, r), (r :> new) @@ h, "")
        ELSE IF options.type = "BRUSH" THEN
            IF ~IsRef(e) \/ h[e].points = << >> THEN Updated(arr, h, "TypeError")
            ELSE Updated(elementsCopy,
                         [h EXCEPT ![e].points = ExtendedPoints(@, x2, y2)], "")
        ELSE IF options.type = "TEXT" THEN
            Updated(UndefinedArray, h, "")
        ELSE Updated(arr, h, "ReferenceError")

\* adjustElementCoordinates: the corners as they are, or exchanged.
adjustElementCoordinates(element) ==
    LET x1 == element.x1
        y1 == element.y1
        x2 == element.x2
        y2 == element.y2
    IN  IF x1 < x2 \/ (x1 = x2 /\ y1 < y2)
        THEN [x1 |-> x1, y1 |-> y1, x2 |-> x2, y2 |-> y2]
        ELSE [x1 |-> x2, y1 |-> y2, x2 |-> x1, y2 |-> y1]

----------------------------------------------------------------------------
(* store/BoardProvider.js: the board state and the reducer.                *)
(* A board state is a record of the six fields of the state object, the    *)
(* heap its references point into, and threw: the error thrown by the      *)
(* reducer, if any ("" when it returned).                                  *)

initialBoardState ==
    [activeToolItem |-> "BRUSH",
     toolActionType |-> "NONE",
     elements |-> << >>,
     history |-> << << >> >>,
     index |-> 0,
     selectedElement |-> NULL,
     heap |-> << >>,
     threw |-> ""]

\* An action object: its type and the payload fields the reducer reads.
Action(type, tool, actionType, point, size, strokeColor, fillColor, text) ==
    [type |-> type, tool |-> tool, actionType |-> actionType,
     clientX |-> point[1], clientY |-> point[2],
     size |-> size, strokeColor |-> strokeColor, fillColor |-> fillColor,
     text |-> text]

NoPoint == <<UNDEFINED, UNDEFINED>>

\* An action of the given type without payload ({ type }).
Plain(type) == Action(type, UNDEF, UNDEF, NoPoint, UNDEFINED, UNDEF, UNDEF, UNDEF)

\* The reducer throws: no state is returned.
Throw(s, err) == [s EXCEPT !.threw = err]

\* case BOARD_ACTIONS.CHANGE_TOOL
ChangeTool(s, action) == [s EXCEPT !.activeToolItem = action.tool]

\* case BOARD_ACTIONS.CHANGE_ACTION_TYPE
ChangeActionType(s, action) == [s EXCEPT !.toolActionType = action.actionType]

\* DRAW_DOWN that numbers the elements from one.
DrawDownIdFromOne(s, action) ==
    IF s.elements = UndefinedArray THEN Throw(s, "TypeError")
    ELSE LET newElement == createRoughElement(Len(s.elements) + 1, action.clientX,
                               action.clientY, action.clientX, action.clientY,
                               Options(s.activeToolItem, UNDEF, action.strokeColor,
                                       action.fillColor, action.size))
             r == NewRef(s.heap)
         IN  IF newElement.thrown # "" THEN Throw(s, newElement.thrown)
             ELSE [s EXCEPT !.elements = Append(Spread(s.elements), r),
                            !.heap = (r :> newElement) @@ s.heap,
                            !.toolActionType =
                                IF s.activeToolItem \in DRAW_TOOL_ITEMS
                                THEN "DRAWING" ELSE "WRITING",
                            !.selectedElement = r]

\* case BOARD_ACTIONS.DRAW_DOWN
DrawDown(s, action) ==
    IF s.elements = UndefinedArray THEN Throw(s, "TypeError")
    ELSE LET id == Len(s.elements)
             newElement == createRoughElement(id, action.clientX, action.clientY,
                               action.clientX, action.clientY,
                               Options(s.activeToolItem, UNDEF, action.strokeColor,
                                       action.fillColor, action.size))
             r == NewRef(s.heap)
         IN  IF newElement.thrown # "" THEN Throw(s, newElement.thrown)
             ELSE [s EXCEPT !.elements = Append(Spread(s.elements), r),
                            !.heap = (r :> newElement) @@ s.heap,
                            !.toolActionType =
                                IF s.activeToolItem \in DRAW_TOOL_ITEMS
                                THEN "DRAWING" ELSE "WRITING",
                            !.selectedElement = r]

\* case BOARD_ACTIONS.DRAW_MOVE
DrawMove(s, action) ==
    IF s.elements = UndefinedArray THEN Throw(s, "TypeError")
    ELSE LET i == Len(s.elements) - 1
             e == At(s.elements, i)
         IN  IF ~IsRef(e) THEN Throw(s, "TypeError")
             ELSE LET last == s.heap[e]
                      u == getUpdatedElements(s.elements, s.heap, i, last.x1, last.y1,
                               action.clientX, action.clientY,
                               Options(last.type, UNDEF, last.stroke, last.fill,
                                       last.size))
                  IN  IF u.thrown # "" THEN Throw(s, u.thrown)
                      ELSE [s EXCEPT !.elements = u.elements, !.heap = u.heap]

\* DRAW_UP that appends to the whole history, the undone snapshots included.
DrawUpKeepsFuture(s, action) ==
    LET newHistory == Append(s.history, s.elements)
    IN  [s EXCEPT !.history = newHistory, !.index = Len(newHistory) - 1]

\* DRAW_UP that drops the first snapshot of the history it keeps.
DrawUpDropsFirst(s, action) ==
    LET newHistory == Append(Tail(Slice(s.history, s.index + 1)), s.elements)
    IN  [s EXCEPT !.history = newHistory, !.index = Len(newHistory) - 1]

\* case BOARD_ACTIONS.DRAW_UP
DrawUp(s, action) ==
    LET newHistory == Append(Slice(s.history, s.index + 1), s.elements)
    IN  [s EXCEPT !.history = newHistory, !.index = Len(newHistory) - 1]

\* A filter that keeps the elements near the point instead of the others.
EraseFilterKeepsHit(arr, h, pointX, pointY) ==
    SelectSeq(arr, LAMBDA v : IsRef(v) /\ isPointNearElement(h[v], pointX, pointY))

\* The entries of the array that elements.filter keeps in ERASE: the
\* callback is not called on an empty slot, and the slot is left out.
EraseFilter(arr, h, pointX, pointY) ==
    SelectSeq(arr, LAMBDA v : IsRef(v) /\ ~isPointNearElement(h[v], pointX, pointY))

\* ERASE without its early return: a snapshot is committed hit or miss.
EraseAlwaysCommits(s, action) ==
    IF s.elements = UndefinedArray THEN Throw(s, "TypeError")
    ELSE LET newElements == SelectSeq(s.elements, LAMBDA v :
                 IsRef(v) /\ ~isPointNearElement(s.heap[v], action.clientX,
                                                 action.clientY))
         IN  [s EXCEPT !.elements = newElements,
                        !.history = Append(s.history, newElements),
                        !.index = s.index + 1,
                        !.toolActionType = "ERASING"]

\* case BOARD_ACTIONS.ERASE
Erase(s, action) ==
    IF s.elements = UndefinedArray THEN Throw(s, "TypeError")
    ELSE IF \E k \in DOMAIN s.elements : s.elements[k] = UNDEFINED
         THEN Throw(s, "TypeError")
    ELSE IF \E k \in DOMAIN s.elements :
                IsRef(s.elements[k]) /\ s.heap[s.elements[k]].type \notin HitTestedTypes
         THEN Throw(s, "Error")
    ELSE LET newElements == EraseFilter(s.elements, s.heap, action.clientX,
                                        action.clientY)
             prevIndex == s.index
         IN  IF Len(newElements) = Len(s.elements) THEN s
             ELSE [s EXCEPT !.elements = newElements,
                            !.history = Append(s.history, newElements),
                            !.index = prevIndex + 1,
                            !.toolActionType = "ERASING"]

\* case BOARD_ACTIONS.CHANGE_TEXT
ChangeText(s, action) ==
    IF s.selectedElement = NULL THEN Throw(s, "TypeError")
    ELSE IF s.elements = UndefinedArray THEN Throw(s, "TypeError")
    ELSE LET i == s.heap[s.selectedElement].id
             e == At(s.elements, i)
         IN  IF ~IsRef(e) THEN Throw(s, "TypeError")
             ELSE LET old == s.heap[e]
                      newEle == createRoughElement(old.id, old.x1, old.y1, NULL, NULL,
                                    Options(old.type, action.text, action.strokeColor,
                                            UNDEF, action.size))
                      r == NewRef(s.heap)
                      elementsCopy == SetAt(Spread(s.elements), old.id, r)
                      prevIndex == s.index
                  IN  IF newEle.thrown # "" THEN Throw(s, newEle.thrown)
                      ELSE [s EXCEPT !.elements = elementsCopy,
                                     !.heap = (r :> newEle) @@ s.heap,
                                     !.history = Append(s.history, elementsCopy),
                                     !.index = prevIndex + 1]

\* UNDO that also drops the selection.
UndoDeselects(s, action) ==
    IF s.index <= 0 THEN s
    ELSE [s EXCEPT !.elements = s.history[(s.index - 1) + 1], !.index = s.index - 1,
                   !.selectedElement = NULL]

\* case BOARD_ACTIONS.UNDO
Undo(s, action) ==
    IF s.index <= 0 THEN s
    ELSE [s EXCEPT !.elements = s.history[(s.index - 1) + 1], !.index = s.index - 1]

\* REDO without its guard: index runs past the last snapshot, and reading
\* the snapshot there yields undefined.
RedoPastEnd(s, action) ==
    [s EXCEPT !.elements = IF s.index + 2 <= Len(s.history)
                           THEN s.history[(s.index + 1) + 1] ELSE UndefinedArray,
              !.index = s.index + 1]

\* REDO that advances index and does not load the snapshot.
RedoKeepsElements(s, action) ==
    IF s.index >= Len(s.history) - 1 THEN s
    ELSE [s EXCEPT !.index = s.index + 1]

\* case BOARD_ACTIONS.REDO
Redo(s, action) ==
    IF s.index >= Len(s.history) - 1 THEN s
    ELSE [s EXCEPT !.elements = s.history[(s.index + 1) + 1], !.index = s.index + 1]

\* A default case that returns to the idle mode.
DefaultToIdle(s, action) == [s EXCEPT !.toolActionType = "NONE"]

\* default
Default(s, action) == s

boardReducer(s, action) ==
    CASE action.type = "CHANGE_TOOL" -> ChangeTool(s, action)
      [] action.type = "CHANGE_ACTION_TYPE" -> ChangeActionType(s, action)
      [] action.type = "DRAW_DOWN" -> DrawDown(s, action)
      [] action.type = "DRAW_MOVE" -> DrawMove(s, action)
      [] action.type = "DRAW_UP" -> DrawUp(s, action)
      [] action.type = "ERASE" -> Erase(s, action)
      [] action.type = "CHANGE_TEXT" -> ChangeText(s, action)
      [] action.type = "UNDO" -> Undo(s, action)
      [] action.type = "REDO" -> Redo(s, action)
      [] OTHER -> Default(s, action)

----------------------------------------------------------------------------
(* The state of the program as a board state, and a step of it. *)

boardState ==
    [activeToolItem |-> activeToolItem,
     toolActionType |-> toolActionType,
     elements |-> elements,
     history |-> history,
     index |-> index,
     selectedElement |-> selectedElement,
     heap |-> heap,
     threw |-> threw]

\* The references held by an array.
RefsOf(arr) == { arr[k] : k \in { j \in DOMAIN arr : IsRef(arr[j]) } }

\* The references reachable from the state object.
Reachable(s) ==
    RefsOf(s.elements)
        \cup UNION { RefsOf(s.history[k]) : k \in DOMAIN s.history }
        \cup (IF s.selectedElement = NULL THEN {} ELSE { s.selectedElement })

RECURSIVE Flatten(_)
\* The arrays of a sequence of arrays, one after the other.
Flatten(arrs) == IF arrs = << >> THEN << >> ELSE Head(arrs) \o Flatten(Tail(arrs))

RECURSIVE FirstRefs(_, _)
\* The references of a sequence, each once, in the order they are first met;
\* seen are those met before.
FirstRefs(walk, seen) ==
    IF walk = << >> THEN << >>
    ELSE IF IsRef(Head(walk)) /\ Head(walk) \notin seen
         THEN <<Head(walk)>> \o FirstRefs(Tail(walk), seen \cup { Head(walk) })
         ELSE FirstRefs(Tail(walk), seen)

\* The state without the objects nothing refers to any more (garbage), and
\* with its references renamed: a reference is numbered by the order in
\* which it is first met when the state object is walked (the snapshots of
\* history in order, then elements, then selectedElement).  Object identity
\* is all a reference stands for, so the renaming changes nothing the
\* program can observe.
Collect(s) ==
    LET order == FirstRefs(Flatten(s.history) \o s.elements \o <<s.selectedElement>>,
                           {})
        name(r) == IF ~IsRef(r) THEN r
                   ELSE (CHOOSE i \in DOMAIN order : order[i] = r) - 1
        rename(arr) == [i \in DOMAIN arr |-> name(arr[i])]
    IN  [s EXCEPT
            !.elements = rename(s.elements),
            !.history = [k \in DOMAIN s.history |-> rename(s.history[k])],
            !.selectedElement = name(s.selectedElement),
            !.heap = [n \in 0..(Len(order) - 1) |-> s.heap[order[n + 1]]]]

\* The scenario of gestures undone and drawn again is in progress: its
\* collections and its history are explored one entry further.
InScenario == roundTrip.phase \in { "draw", "undone", "again", "recommitted", "redone" }
ScenarioMaxElements == MaxElements + 1
ScenarioMaxHistory == MaxHistory + 1

\* The sizes the model explores.
WithinBounds(s) ==
    /\ s.elements # UndefinedArray =>
          Len(s.elements) <= (IF InScenario THEN ScenarioMaxElements ELSE MaxElements)
    /\ Len(s.history) <= (IF InScenario THEN ScenarioMaxHistory ELSE MaxHistory)
    /\ \A r \in Reachable(s) : Len(s.heap[r].points) <= MaxPoints

\* The reducer's result becomes the state, and trip the progress of the round
\* trip.
Transition(result, trip) ==
    \E reduced \in { result } :
        \E r \in { Collect(reduced) } :
            /\ threw = ""
            /\ WithinBounds(r)
            /\ activeToolItem' = r.activeToolItem
            /\ toolActionType' = r.toolActionType
            /\ elements' = r.elements
            /\ history' = r.history
            /\ index' = r.index
            /\ selectedElement' = r.selectedElement
            /\ heap' = r.heap
            /\ threw' = r.threw
            /\ roundTrip' = trip
            /\ call' = call

\* The reducer's result becomes the state, outside a round trip.
Becomes(result) == Transition(result, roundTrip)

\* No function of utils/element.js has been called on its own.
NoCall == [fn |-> "none"]

\* No round trip has begun: the user is drawing, erasing and writing.
NoTrip ==
    [phase |-> "commit", undone |-> 0, made |-> 0, elements |-> << >>, index |-> 0]

\* Two dispatches of one handler: the second action is reduced on the result
\* of the first, unless the first threw.
Reduce2(s, a1, a2) ==
    LET r == boardReducer(s, a1)
    IN  IF r.threw # "" THEN r ELSE boardReducer(r, a2)

Init ==
    /\ activeToolItem = initialBoardState.activeToolItem
    /\ toolActionType = initialBoardState.toolActionType
    /\ elements = initialBoardState.elements
    /\ history = initialBoardState.history
    /\ index = initialBoardState.index
    /\ selectedElement = initialBoardState.selectedElement
    /\ heap = initialBoardState.heap
    /\ threw = initialBoardState.threw
    /\ roundTrip = NoTrip
    /\ call = NoCall

----------------------------------------------------------------------------
(* The handlers of BoardContextProvider. *)

SetMode(actionType) ==
    Action("CHANGE_ACTION_TYPE", UNDEF, actionType, NoPoint, UNDEFINED, UNDEF, UNDEF,
           UNDEF)

PointAction(type, point) ==
    Action(type, UNDEF, UNDEF, point, UNDEFINED, UNDEF, UNDEF, UNDEF)

DrawDownAction(point) ==
    Action("DRAW_DOWN", UNDEF, UNDEF, point, ToolboxSize(activeToolItem),
           ToolboxStroke(activeToolItem), ToolboxFill(activeToolItem), UNDEF)

ChangeTextAction(text) ==
    Action("CHANGE_TEXT", UNDEF, UNDEF, NoPoint, ToolboxSize(activeToolItem),
           ToolboxStroke(activeToolItem), UNDEF, text)

changeToolHandler ==
    \E tool \in Tools :
        Becomes(boardReducer(boardState,
                    Action("CHANGE_TOOL", tool, UNDEF, NoPoint, UNDEFINED, UNDEF,
                           UNDEF, UNDEF)))

boardMouseDownHandler ==
    /\ toolActionType # "WRITING"
    /\ \E point \in PressPoints :
        IF activeToolItem = "ERASER"
        THEN Becomes(boardReducer(boardState, SetMode("ERASING")))
        ELSE Becomes(boardReducer(boardState, DrawDownAction(point)))

boardMouseMoveHandler ==
    \/ /\ toolActionType = "DRAWING"
       /\ \E point \in DragPoints :
            Becomes(boardReducer(boardState, PointAction("DRAW_MOVE", point)))
    \/ /\ toolActionType = "ERASING"
       /\ \E point \in ErasePoints :
            Becomes(boardReducer(boardState, PointAction("ERASE", point)))

boardMouseUpHandler ==
    /\ toolActionType # "WRITING"
    /\ IF toolActionType = "DRAWING"
       THEN Becomes(Reduce2(boardState, Plain("DRAW_UP"), SetMode("NONE")))
       ELSE Becomes(boardReducer(boardState, SetMode("NONE")))

\* The text area exists, and can lose the focus, while the mode is WRITING.
textAreaBlurHandler ==
    /\ toolActionType = "WRITING"
    /\ \E text \in Texts :
        Becomes(Reduce2(boardState, ChangeTextAction(text), SetMode("NONE")))

boardUndoHandler == Becomes(boardReducer(boardState, Plain("UNDO")))

boardRedoHandler == Becomes(boardReducer(boardState, Plain("REDO")))

Next ==
    \/ changeToolHandler
    \/ boardMouseDownHandler
    \/ boardMouseMoveHandler
    \/ boardMouseUpHandler
    \/ textAreaBlurHandler
    \/ boardUndoHandler
    \/ boardRedoHandler

Spec == Init /\ [][Next]_vars

----------------------------------------------------------------------------
(* The reducer on its own: any action, in any state. *)

\* The collections this specification explores are one entry shorter.
ReducerMaxElements == MaxElements - 1

Reduced(result) ==
    /\ result.elements # UndefinedArray => Len(result.elements) <= ReducerMaxElements
    /\ Becomes(result)

DispatchChangeTool ==
    \E tool \in Tools :
        Reduced(boardReducer(boardState,
                    Action("CHANGE_TOOL", tool, UNDEF, NoPoint, UNDEFINED, UNDEF,
                           UNDEF, UNDEF)))

DispatchChangeActionType ==
    \E actionType \in TOOL_ACTION_TYPES :
        Reduced(boardReducer(boardState, SetMode(actionType)))

DispatchDrawDown ==
    \E point \in PressPoints : Reduced(boardReducer(boardState, DrawDownAction(point)))

DispatchDrawMove ==
    \E point \in DragPoints :
        Reduced(boardReducer(boardState, PointAction("DRAW_MOVE", point)))

DispatchDrawUp == Reduced(boardReducer(boardState, Plain("DRAW_UP")))

DispatchErase ==
    \E point \in ErasePoints :
        Reduced(boardReducer(boardState, PointAction("ERASE", point)))

DispatchChangeText ==
    \E text \in Texts : Reduced(boardReducer(boardState, ChangeTextAction(text)))

DispatchUndo == Reduced(boardReducer(boardState, Plain("UNDO")))

DispatchRedo == Reduced(boardReducer(boardState, Plain("REDO")))

\* An action whose type is none of BOARD_ACTIONS.
DispatchUnknown == Reduced(boardReducer(boardState, Plain("UNKNOWN")))

NextReducer ==
    \/ DispatchChangeTool
    \/ DispatchChangeActionType
    \/ DispatchDrawDown
    \/ DispatchDrawMove
    \/ DispatchDrawUp
    \/ DispatchErase
    \/ DispatchChangeText
    \/ DispatchUndo
    \/ DispatchRedo
    \/ DispatchUnknown

SpecReducer == Init /\ [][NextReducer]_vars

----------------------------------------------------------------------------
(* An undo/redo round trip: the user draws, erases and writes without ever  *)
(* undoing, each gesture completed before the next begins (a tool is picked *)
(* and the button pressed only in the idle mode), then undoes k times and   *)
(* then redoes k times.                                                     *)

\* The element objects an array holds, in order; an entry that is no object
\* (an undefined entry, an empty slot) is shown as an object of no type.
Contents(arr, h) ==
    [i \in DOMAIN arr |->
        IF IsRef(arr[i]) THEN h[arr[i]] ELSE [NoElement EXCEPT !.type = "no object"]]

Committing == roundTrip.phase = "commit"

CommitChangeTool == Committing /\ toolActionType = "NONE" /\ changeToolHandler

CommitMouseDown == Committing /\ toolActionType = "NONE" /\ boardMouseDownHandler

CommitMouseMove == Committing /\ boardMouseMoveHandler

CommitMouseUp == Committing /\ boardMouseUpHandler

CommitTextAreaBlur == Committing /\ textAreaBlurHandler

\* boardUndoHandler, between gestures, while fewer UNDOs have been made than
\* there are commits.  The first UNDO records the collection and the index.
TripUndo ==
    /\ roundTrip.phase \in { "commit", "undo" }
    /\ toolActionType = "NONE"
    /\ roundTrip.undone < Len(history) - 1
    /\ Transition(boardReducer(boardState, Plain("UNDO")),
                  IF Committing
                  THEN [phase |-> "undo", undone |-> 1, made |-> 1,
                        elements |-> Contents(elements, heap), index |-> index]
                  ELSE [roundTrip EXCEPT !.undone = @ + 1, !.made = @ + 1])

\* boardRedoHandler, once for each UNDO made.
TripRedo ==
    /\ roundTrip.phase \in { "undo", "redo" }
    /\ roundTrip.undone > 0
    /\ Transition(boardReducer(boardState, Plain("REDO")),
                  [roundTrip EXCEPT !.phase = "redo", !.undone = @ - 1])

NextRoundTrip ==
    \/ CommitChangeTool
    \/ CommitMouseDown
    \/ CommitMouseMove
    \/ CommitMouseUp
    \/ CommitTextAreaBlur
    \/ TripUndo
    \/ TripRedo

SpecRoundTrip == Init /\ [][NextRoundTrip]_vars

----------------------------------------------------------------------------
(* The scenario of draw gestures: some gestures are completed, some of them *)
(* are undone, one more gesture is completed, and REDO is triggered.        *)
(* roundTrip counts the gestures made and undone, and keeps the index the   *)
(* UNDOs left.                                                              *)

InitScenario ==
    /\ Init!1 /\ Init!2 /\ Init!3 /\ Init!4 /\ Init!5 /\ Init!6 /\ Init!7 /\ Init!8
    /\ roundTrip = [NoTrip EXCEPT !.phase = "draw"]
    /\ call = NoCall

\* boardMouseDownHandler with a draw tool, between gestures: a gesture
\* begins, the first ones before any UNDO, the last one after the UNDOs.
GestureMouseDown ==
    /\ roundTrip.phase \in { "draw", "undone" }
    /\ toolActionType = "NONE"
    /\ activeToolItem \in DRAW_TOOL_ITEMS
    /\ \E point \in PressPoints :
          Transition(boardReducer(boardState, DrawDownAction(point)),
                     IF roundTrip.phase = "undone"
                     THEN [roundTrip EXCEPT !.phase = "again"]
                     ELSE roundTrip)

\* boardMouseMoveHandler during a gesture.
GestureMouseMove ==
    /\ roundTrip.phase \in { "draw", "again" }
    /\ toolActionType = "DRAWING"
    /\ boardMouseMoveHandler

\* boardMouseUpHandler during a gesture: the gesture is completed.
GestureMouseUp ==
    /\ roundTrip.phase \in { "draw", "again" }
    /\ toolActionType = "DRAWING"
    /\ Transition(Reduce2(boardState, Plain("DRAW_UP"), SetMode("NONE")),
                  IF roundTrip.phase = "again"
                  THEN [roundTrip EXCEPT !.phase = "recommitted"]
                  ELSE [roundTrip EXCEPT !.made = @ + 1])

\* boardUndoHandler between gestures, while a completed gesture is left to
\* undo.
GestureUndo ==
    /\ roundTrip.phase \in { "draw", "undone" }
    /\ toolActionType = "NONE"
    /\ roundTrip.undone < roundTrip.made
    /\ LET r == boardReducer(boardState, Plain("UNDO"))
       IN  Transition(r, [roundTrip EXCEPT !.phase = "undone", !.undone = @ + 1,
                                           !.index = r.index])

\* boardRedoHandler after the last gesture.
GestureRedo ==
    /\ roundTrip.phase = "recommitted"
    /\ Transition(boardReducer(boardState, Plain("REDO")),
                  [roundTrip EXCEPT !.phase = "redone"])

NextScenario ==
    \/ GestureMouseDown
    \/ GestureMouseMove
    \/ GestureMouseUp
    \/ GestureUndo
    \/ GestureRedo

SpecScenario == InitScenario /\ [][NextScenario]_vars

----------------------------------------------------------------------------
(* The functions of utils/element.js called on their own, on any arguments: *)
(* one call, and for a stroke the calls that extend it further.             *)

\* The variables of the board, which these calls leave alone.
boardVars == <<activeToolItem, toolActionType, elements, history, index,
               selectedElement, heap, threw, roundTrip>>

\* The coordinates passed as corners and as query points.
Coords == { 0, 2, 4 }
\* The tool kinds passed: those of TOOL_ITEMS and one that is none of them.
Kinds == TOOL_ITEMS \cup { "STAR" }
\* The stroke colours passed.
Strokes == { "black", "red" }
\* The samples a collection is updated with (x2, y2).
Samples == { <<1, 1>>, <<2, 2>> }
\* The start points a caller passes to getUpdatedElements (x1, y1).
Starts == { <<0, 0>>, <<2, 2>> }
\* A stroke is extended again while it has no more points than this.
ChainMaxPoints == MaxPoints

\* The element of kind type that createRoughElement builds for position i
\* of a collection, from (0, 0) to (4, 2).
ElementAt(i, type) ==
    createRoughElement(i, 0, 0, 4, 2, Options(type, "hi", "black", "white", 1))

\* createRoughElement(index, x1, y1, x2, y2, { type, ... })
CallCreateRoughElement ==
    call = NoCall /\
    \E i \in 0..1, x1 \in Coords, y1 \in Coords, x2 \in Coords, y2 \in Coords,
       type \in Kinds :
        LET options == Options(type, "hi", "black", "white", 1)
        IN  /\ call' = [fn |-> "createRoughElement", id |-> i,
                        x1 |-> x1, y1 |-> y1, x2 |-> x2, y2 |-> y2,
                        options |-> options,
                        result |-> createRoughElement(i, x1, y1, x2, y2, options)]
            /\ UNCHANGED boardVars

\* getUpdatedElements(elements, id, x1, y1, x2, y2, options) on a collection
\* of elements built by createRoughElement, each at its position, for a
\* valid id.
CallGetUpdatedElements ==
    call = NoCall /\
    \E n \in 1..MaxElements :
        \E types \in [1..n -> HitTestedTypes], id \in 0..(n - 1), start \in Starts,
           sample \in Samples, type \in Kinds, stroke \in Strokes :
            LET arr == [i \in 1..n |-> i - 1]
                h == [r \in 0..(n - 1) |-> ElementAt(r, types[r + 1])]
                options == Options(type, UNDEF, stroke, "white", 1)
            IN  /\ call' = [fn |-> "getUpdatedElements", elements |-> arr, heap |-> h,
                            id |-> id, x1 |-> start[1], y1 |-> start[2],
                            x2 |-> sample[1], y2 |-> sample[2], options |-> options,
                            result |-> getUpdatedElements(arr, h, id, start[1],
                                           start[2], sample[1], sample[2], options)]
                /\ UNCHANGED boardVars

\* getUpdatedElements called again on the collection it returned, to extend
\* the same stroke with another sample.
CallGetUpdatedElementsAgain ==
    /\ call.fn = "getUpdatedElements"
    /\ call.options.type = "BRUSH"
    /\ call.result.thrown = ""
    /\ Len(call.result.heap[call.result.elements[call.id + 1]].points) <= ChainMaxPoints
    /\ \E sample \in Samples :
        call' = [call EXCEPT
                    !.elements = call.result.elements,
                    !.heap = call.result.heap,
                    !.x2 = sample[1], !.y2 = sample[2],
                    !.result = getUpdatedElements(call.result.elements,
                                   call.result.heap, call.id, call.x1, call.y1,
                                   sample[1], sample[2], call.options)]
    /\ UNCHANGED boardVars

\* adjustElementCoordinates(element) on a rectangle of any corners.
CallAdjustElementCoordinates ==
    call = NoCall /\
    \E x1 \in Coords, y1 \in Coords, x2 \in Coords, y2 \in Coords :
        LET element == createRoughElement(0, x1, y1, x2, y2,
                           Options("RECTANGLE", UNDEF, "black", "white", 1))
        IN  /\ call' = [fn |-> "adjustElementCoordinates", element |-> element,
                        result |-> adjustElementCoordinates(element)]
            /\ UNCHANGED boardVars

\* Numbers with a fractional part are kept in units of 1/TrigScale.
TrigScale == 1000

\* Math.cos of an angle of 0, 15, ..., 90 degrees, in units of 1/TrigScale.
CosOfAcute ==
    [d \in { 0, 15, 30, 45, 60, 75, 90 } |->
        CASE d = 0 -> 1000 [] d = 15 -> 966 [] d = 30 -> 866 [] d = 45 -> 707
          [] d = 60 -> 500 [] d = 75 -> 259 [] d = 90 -> 0]

\* Math.cos and Math.sin of an angle given in degrees, a multiple of 15.
Cos(deg) ==
    LET a == ((deg % 360) + 360) % 360
    IN  IF a <= 90 THEN CosOfAcute[a]
        ELSE IF a <= 180 THEN -CosOfAcute[180 - a]
        ELSE IF a <= 270 THEN -CosOfAcute[a - 180]
        ELSE CosOfAcute[360 - a]

Sin(deg) == Cos(deg - 90)

\* Math.atan2(dy, dx) in degrees, for a direction along an axis or a
\* diagonal; atan2(0, 0) is 0.
Atan2(dy, dx) ==
    IF dy = 0 THEN (IF dx >= 0 THEN 0 ELSE 180)
    ELSE IF dx = 0 THEN (IF dy > 0 THEN 90 ELSE -90)
    ELSE IF dx > 0 THEN (IF dy > 0 THEN 45 ELSE -45)
    ELSE (IF dy > 0 THEN 135 ELSE -135)

\* Tips laid out ahead of the end of the arrow instead of behind it.
ArrowHeadsAhead(x1, y1, x2, y2, arrowLength) ==
    LET angle == Atan2(y2 - y1, x2 - x1)
    IN  [x3 |-> x2 * TrigScale + arrowLength * Cos(angle - 30),
         y3 |-> y2 * TrigScale + arrowLength * Sin(angle - 30),
         x4 |-> x2 * TrigScale + arrowLength * Cos(angle + 30),
         y4 |-> y2 * TrigScale + arrowLength * Sin(angle + 30)]

\* getArrowHeadsCoordinates: the two tips, in units of 1/TrigScale
\* (Math.PI / 6 is 30 degrees).
getArrowHeadsCoordinates(x1, y1, x2, y2, arrowLength) ==
    LET angle == Atan2(y2 - y1, x2 - x1)
        x3 == x2 * TrigScale - arrowLength * Cos(angle - 30)
        y3 == y2 * TrigScale - arrowLength * Sin(angle - 30)
        x4 == x2 * TrigScale - arrowLength * Cos(angle + 30)
        y4 == y2 * TrigScale - arrowLength * Sin(angle + 30)
    IN  [x3 |-> x3, y3 |-> y3, x4 |-> x4, y4 |-> y4]

\* The ends and the lengths of the arrows passed: the arrow runs along an
\* axis or a diagonal, or is a single point.
ArrowCoords == { 0, 10 }
ArrowLengths == { 5, 20 }

\* getArrowHeadsCoordinates(x1, y1, x2, y2, arrowLength) on any arrow.
CallGetArrowHeadsCoordinates ==
    call = NoCall /\
    \E x1 \in ArrowCoords, y1 \in ArrowCoords, x2 \in ArrowCoords, y2 \in ArrowCoords,
       arrowLength \in ArrowLengths :
        /\ call' = [fn |-> "getArrowHeadsCoordinates", x1 |-> x1, y1 |-> y1,
                    x2 |-> x2, y2 |-> y2, arrowLength |-> arrowLength,
                    result |-> getArrowHeadsCoordinates(x1, y1, x2, y2, arrowLength)]
        /\ UNCHANGED boardVars

\* isPointNearElement(element, { pointX, pointY }) on an element that
\* createRoughElement built.
CallIsPointNearElement ==
    call = NoCall /\
    \E type \in HitTestedTypes, x1 \in Coords, y1 \in Coords, x2 \in Coords,
       y2 \in Coords, pointX \in Coords, pointY \in Coords :
        LET element == createRoughElement(0, x1, y1, x2, y2,
                           Options(type, "hi", "black", "white", 1))
        IN  /\ call' = [fn |-> "isPointNearElement", element |-> element,
                        x1 |-> x1, y1 |-> y1, pointX |-> pointX, pointY |-> pointY,
                        result |-> isPointNearElement(element, pointX, pointY)]
            /\ UNCHANGED boardVars

NextElement ==
    \/ CallCreateRoughElement
    \/ CallGetUpdatedElements
    \/ CallGetUpdatedElementsAgain
    \/ CallAdjustElementCoordinates
    \/ CallGetArrowHeadsCoordinates
    \/ CallIsPointNearElement

SpecElement == Init /\ [][NextElement]_vars

----------------------------------------------------------------------------
(* Properties of the functions of utils/element.js (SpecElement). *)

\* The kinds getUpdatedElements recreates.
ShapeKinds == { "LINE", "RECTANGLE", "CIRCLE", "ARROW" }

\* getUpdatedElements was called for the kind of tool that the element at
\* position id was made with.
UpdatedOwnKind ==
    /\ call.fn = "getUpdatedElements"
    /\ call.heap[call.elements[call.id + 1]].type = call.options.type

\* C13: getUpdatedElements for a line, rectangle, circle or arrow returns
\* the input collection with position id replaced by
\* createRoughElement(id, x1, y1, x2, y2, options), for the x1, y1 and
\* options the caller passed.
UpdateIsRecreate ==
    (UpdatedOwnKind /\ call.options.type \in ShapeKinds) =>
        /\ call.result.thrown = ""
        /\ call.result.elements # UndefinedArray
        /\ Contents(call.result.elements, call.result.heap)
             = [Contents(call.elements, call.heap) EXCEPT ![call.id + 1] =
                   createRoughElement(call.id, call.x1, call.y1, call.x2, call.y2,
                                      call.options)]

\* The kinds of tool that make an element.
ElementKinds == ShapeKinds \cup { "BRUSH", "TEXT" }

\* C14: for every recognized kind, getUpdatedElements returns a collection
\* of the same length whose element at every position other than id is the
\* very same object as in the input collection, and no object of the input
\* collection, the one at position id included, is modified.
UpdateFrame ==
    (UpdatedOwnKind /\ call.options.type \in ElementKinds) =>
        /\ call.result.thrown = ""
        /\ call.result.elements # UndefinedArray
        /\ Len(call.result.elements) = Len(call.elements)
        /\ \A k \in DOMAIN call.elements :
              /\ k # call.id + 1 => call.result.elements[k] = call.elements[k]
              /\ call.result.heap[call.elements[k]] = call.heap[call.elements[k]]

\* The points of the element at position id before the call, and after it.
PointsBefore == call.heap[call.elements[call.id + 1]].points
PointsAfter == call.result.heap[call.result.elements[call.id + 1]].points

\* C15: each call of getUpdatedElements on a freehand element makes its
\* point sequence exactly one longer: the sequence of before is a strict
\* prefix of the new one, and the sample (x2, y2) is its last point.
BrushUpdateAppendsSample ==
    (UpdatedOwnKind /\ call.options.type = "BRUSH") =>
        /\ call.result.thrown = ""
        /\ call.result.elements # UndefinedArray
        /\ Len(PointsAfter) = Len(PointsBefore) + 1
        /\ SubSeq(PointsAfter, 1, Len(PointsBefore)) = PointsBefore
        /\ PointsAfter[Len(PointsAfter)] = <<call.x2, call.y2>>

\* The stroke created at (0,0) has been extended with (1,1), then (2,2).
BrushExtendedTwice ==
    /\ UpdatedOwnKind /\ call.options.type = "BRUSH"
    /\ call.result.thrown = ""
    /\ PointsBefore = << <<0, 0>>, <<1, 1>> >>
    /\ PointsAfter = << <<0, 0>>, <<1, 1>>, <<2, 2>> >>

\* C16: for every pair of corners, adjustElementCoordinates returns
\* (x1, y1) as the top-left and (x2, y2) as the bottom-right point of the
\* bounding box: result.x1 <= result.x2 and result.y1 <= result.y2.
AdjustedIsBoundingBox ==
    call.fn = "adjustElementCoordinates" =>
        /\ call.result.x1 <= call.result.x2
        /\ call.result.y1 <= call.result.y2

\* C17: createRoughElement and getUpdatedElements throw the error for an
\* unrecognized type for every type outside brush, line, rectangle, circle,
\* arrow and text, and return a value for every type inside.
KindIsValidated ==
    /\ call.fn = "createRoughElement" =>
          IF call.options.type \in ElementKinds
          THEN call.result.thrown = ""
          ELSE call.result.thrown = "Error"
    /\ call.fn = "getUpdatedElements" =>
          IF call.options.type \in ElementKinds
          THEN UpdatedOwnKind =>
                  /\ call.result.thrown = ""
                  /\ call.result.elements # UndefinedArray
          ELSE call.result.thrown = "Error"

\* isPointNearElement was called at the point (x1, y1) the element was
\* created from.
HitTestedAtAnchor ==
    /\ call.fn = "isPointNearElement"
    /\ call.pointX = call.x1 /\ call.pointY = call.y1

\* C18: for every kind of element and every pair of corners, the element
\* that createRoughElement builds is near its own start point (x1, y1):
\* isPointNearElement returns true there.
NearItsOwnAnchor == HitTestedAtAnchor => call.result = TRUE

\* A circle drawn from its bottom-right to its top-left corner, tested at
\* the corner it was started from.
BackwardCircleAtAnchor ==
    /\ HitTestedAtAnchor
    /\ call.element.type = "CIRCLE"
    /\ call.element.x1 > call.element.x2 /\ call.element.y1 > call.element.y2
    /\ call.result = TRUE

\* getArrowHeadsCoordinates was called for the arrow from (0, 0) to (10, 0)
\* with arrowhead length 5.
ArrowScenario ==
    /\ call.fn = "getArrowHeadsCoordinates"
    /\ call.x1 = 0 /\ call.y1 = 0 /\ call.x2 = 10 /\ call.y2 = 0
    /\ call.arrowLength = 5

\* The two tips returned, as a set of points.
Tips == { <<call.result.x3, call.result.y3>>, <<call.result.x4, call.result.y4>> }

\* C24, as stated: for the arrow from (0, 0) to (10, 0) with arrowhead
\* length 5 the tips are (10 - 5cos(150), -5sin(150)) and
\* (10 - 5cos(210), -5sin(210)).
ArrowTipsAsStated ==
    ArrowScenario =>
        Tips = { <<10 * TrigScale - 5 * Cos(150), -5 * Sin(150)>>,
                 <<10 * TrigScale - 5 * Cos(210), -5 * Sin(210)>> }

\* C24, amended: the tips are the end (x2, y2) plus the arrowhead length
\* along the reversed line direction rotated by -30 and by +30 degrees; for
\* the arrow from (0, 0) to (10, 0) with length 5 they are
\* (10 + 5cos(150), 5sin(150)) and (10 + 5cos(210), 5sin(210)).
ArrowTipsBehindEnd ==
    /\ ArrowScenario =>
          Tips = { <<10 * TrigScale + 5 * Cos(150), 5 * Sin(150)>>,
                   <<10 * TrigScale + 5 * Cos(210), 5 * Sin(210)>> }
    /\ (call.fn = "getArrowHeadsCoordinates" /\ <<call.x1, call.y1>> # <<call.x2, call.y2>>) =>
          LET reversed == Atan2(call.y1 - call.y2, call.x1 - call.x2)
          IN  /\ call.result.x3 = call.x2 * TrigScale + call.arrowLength * Cos(reversed - 30)
              /\ call.result.y3 = call.y2 * TrigScale + call.arrowLength * Sin(reversed - 30)
              /\ call.result.x4 = call.x2 * TrigScale + call.arrowLength * Cos(reversed + 30)
              /\ call.result.y4 = call.y2 * TrigScale + call.arrowLength * Sin(reversed + 30)

\* The tips returned for the arrow from (0, 0) to (10, 0) with length 5:
\* (5.670, 2.5) and (5.670, -2.5), behind the end of the arrow.
ArrowScenarioTips ==
    /\ ArrowScenario
    /\ call.result = [x3 |-> 5670, y3 |-> 2500, x4 |-> 5670, y4 |-> -2500]

----------------------------------------------------------------------------
(* Properties of the reducer on its own (SpecReducer). *)

\* C1: in every state reached from the initial board state by any sequence
\* of reducer actions, 0 <= index < length(history).
IndexWithinHistory == 0 <= index /\ index < Len(history)

\* UNDO has moved index strictly inside a history of three snapshots.
IndexInsideHistory == Len(history) = 3 /\ index = 1 /\ threw = ""

\* The actions dispatched to the reducer.
Dispatched ==
    { Action("CHANGE_TOOL", tool, UNDEF, NoPoint, UNDEFINED, UNDEF, UNDEF, UNDEF) :
        tool \in Tools }
        \cup { SetMode(actionType) : actionType \in TOOL_ACTION_TYPES }
        \cup { DrawDownAction(point) : point \in PressPoints }
        \cup { PointAction("DRAW_MOVE", point) : point \in DragPoints }
        \cup { PointAction("ERASE", point) : point \in ErasePoints }
        \cup { ChangeTextAction(text) : text \in Texts }
        \cup { Plain("DRAW_UP"), Plain("UNDO"), Plain("REDO"), Plain("UNKNOWN") }

\* The old state as it reads after the reducer has returned r: its own
\* fields, and its objects as they are then.
OldStateAfter(s, r) == [s EXCEPT !.heap = [ref \in DOMAIN s.heap |-> r.heap[ref]]]

\* C7: every reducer transition is a pure function of (old state, action):
\* after the reducer has returned, the old state, with every element object
\* reachable from it, is unmodified, so that the same action applied again to
\* the old state yields an equal result.
ReducerIsPure ==
    \A action \in Dispatched :
        LET r == boardReducer(boardState, action)
        IN  r.threw = "" =>
                /\ OldStateAfter(boardState, r) = boardState
                /\ Collect(boardReducer(OldStateAfter(boardState, r), action))
                       = Collect(r)

\* C10: UNDO when index = 0, REDO when index = length(history) - 1, and an
\* action of an unrecognized type each return a state identical to the input
\* state in every field.
NoOpsReturnTheState ==
    /\ index = 0 => boardReducer(boardState, Plain("UNDO")) = boardState
    /\ index = Len(history) - 1 => boardReducer(boardState, Plain("REDO")) = boardState
    /\ boardReducer(boardState, Plain("UNKNOWN")) = boardState

\* A state at index 0 with a snapshot to redo, a live element and a selected
\* element: UNDO is a no-op here, and nothing of the state is trivial.
UndoAtStartOfHistory ==
    /\ index = 0 /\ Len(history) > 1 /\ threw = ""
    /\ elements \notin { << >>, UndefinedArray } /\ selectedElement # NULL
    /\ toolActionType # "NONE"

\* The hit-test at the point matches no element of the live collection.
MissesAll(point) ==
    /\ elements # UndefinedArray
    /\ \A k \in DOMAIN elements :
          /\ IsRef(elements[k])
          /\ ~isPointNearElement(heap[elements[k]], point[1], point[2])

LastIsText ==
    /\ elements # UndefinedArray /\ elements # << >>
    /\ IsRef(elements[Len(elements)])
    /\ heap[elements[Len(elements)]].type = "TEXT"

\* C12: a DRAW_MOVE dispatched while the last element of the collection is
\* a text element returns a state, and its elements are the collection of
\* before: a sequence with the same elements at the same positions.
DrawMoveOnTextKeepsElements ==
    LastIsText =>
        \A point \in DragPoints :
            LET r == boardReducer(boardState, PointAction("DRAW_MOVE", point))
            IN  /\ r.threw = ""
                /\ r.elements # UndefinedArray
                /\ Contents(r.elements, r.heap) = Contents(elements, heap)

----------------------------------------------------------------------------
(* Properties of ERASE in the states the handlers reach (Spec). *)

\* The reducer has returned a state, whose live collection is a sequence of
\* element objects.
ElementsAreObjects ==
    /\ threw = ""
    /\ elements # UndefinedArray
    /\ \A k \in DOMAIN elements : IsRef(elements[k])

\* The positions of the live collection whose element the hit-test at the
\* point does not match.
Spared(point) ==
    { k \in DOMAIN elements :
        ~isPointNearElement(heap[elements[k]], point[1], point[2]) }

\* kept is the live collection restricted to the positions of positions, in
\* the order of the collection.
IsRestriction(kept, positions) ==
    \E f \in [DOMAIN kept -> DOMAIN elements] :
        /\ \A i, j \in DOMAIN kept : i < j => f[i] < f[j]
        /\ { f[i] : i \in DOMAIN kept } = positions
        /\ \A i \in DOMAIN kept : kept[i] = elements[f[i]]

----------------------------------------------------------------------------
(* Properties of the scenario of draw gestures (SpecScenario). *)

\* The effect of the pointer going up while drawing: history is its first
\* index + 1 snapshots followed by the elements, index is its last position,
\* the elements are those of before, and the mode is NONE.
DrawUpEffect ==
    /\ threw' = ""
    /\ Len(history') = index + 2
    /\ index' = Len(history') - 1
    /\ \A k \in 1..(index + 1) :
          Contents(history'[k], heap') = Contents(history[k], heap)
    /\ Contents(history'[Len(history')], heap') = Contents(elements, heap)
    /\ Contents(elements', heap') = Contents(elements, heap)
    /\ toolActionType' = "NONE"

\* C19: DRAW_UP while drawing sets history to the old history's first
\* index + 1 snapshots followed by the current elements and index to the last
\* position of the new history, the elements are unchanged and the handler
\* sets the mode to NONE; after completed gestures, UNDOs and one more
\* completed gesture the history length is (index after the UNDOs + 1) + 1,
\* and a REDO after it changes nothing.
DrawUpTruncatesAndAppends ==
    [][/\ GestureMouseUp => DrawUpEffect
       /\ GestureMouseUp /\ roundTrip.phase = "again" =>
              Len(history') = (roundTrip.index + 1) + 1
       /\ GestureRedo =>
              /\ threw' = ""
              /\ Len(history') = Len(history) /\ index' = index
              /\ toolActionType' = toolActionType
              /\ Contents(elements', heap') = Contents(elements, heap)
              /\ \A k \in DOMAIN history :
                    Contents(history'[k], heap') = Contents(history[k], heap)]_vars

\* Three gestures were completed, two of them undone, one more gesture
\* completed and REDO triggered: history has three snapshots.
ThreeDrawnTwoUndoneOneDrawn ==
    /\ roundTrip.phase = "redone"
    /\ roundTrip.made = 3 /\ roundTrip.undone = 2 /\ roundTrip.index = 1
    /\ Len(history) = 3 /\ index = 2
    /\ Len(elements) = 2
    /\ toolActionType = "NONE" /\ threw = ""

----------------------------------------------------------------------------
(* Properties of the board driven by its handlers (Spec). *)

\* A handler commits: a DRAW_UP, an ERASE that removed an element, or a
\* CHANGE_TEXT has been reduced.
CommitStep ==
    /\ threw' = ""
    /\ \/ textAreaBlurHandler
       \/ toolActionType = "DRAWING" /\ boardMouseUpHandler
       \/ /\ toolActionType = "ERASING"
          /\ boardMouseMoveHandler
          /\ Len(elements') < Len(elements)

\* C2: immediately after any committing transition, from any reachable
\* state, history[index] equals the live elements collection.
CommitMakesSnapshotCurrent ==
    [][CommitStep =>
          Contents(history'[index' + 1], heap') = Contents(elements', heap')]_vars

\* C3: a commit of any kind made after one or more UNDOs discards all
\* snapshots after the index it was made at: after it index is the last
\* position of history, and a REDO leaves the state unchanged.
CommitDiscardsRedoFuture ==
    [][CommitStep /\ index < Len(history) - 1 =>
          /\ Len(history') = index + 2
          /\ index' = Len(history') - 1
          /\ boardReducer(boardState, Plain("REDO"))' = boardState']_vars

\* C5: the reducer never throws, whatever the handlers dispatch and whenever
\* undo and redo are triggered.
ReducerNeverThrows == threw = ""

\* C6: the contents of a snapshot of history, up to the current one, are
\* never changed by a later transition.
SnapshotsNeverChange ==
    [][\A k \in DOMAIN history :
          k <= index + 1 /\ k <= Len(history') =>
              Contents(history'[k], heap') = Contents(history[k], heap)]_vars

\* C8: in every reachable state the id of every element of the live
\* collection is its position in the collection.
IdIsPosition ==
    \A i \in DOMAIN elements : IsRef(elements[i]) => heap[elements[i]].id = i - 1

\* C9: in every reachable state no two elements of the live collection
\* share an id.
IdsAreUnique ==
    \A i, j \in DOMAIN elements :
        IsRef(elements[i]) /\ IsRef(elements[j]) /\ i # j =>
            heap[elements[i]].id # heap[elements[j]].id

----------------------------------------------------------------------------
(* Property of the round trip (SpecRoundTrip). *)

\* C4: after any sequence of commits, k UNDOs followed by k REDOs, for k no
\* greater than the number of commits, yield an elements collection equal to
\* the one before the UNDOs, and the same index.
RoundTripRestores ==
    roundTrip.phase = "redo" /\ roundTrip.undone = 0 =>
        /\ Contents(elements, heap) = roundTrip.elements
        /\ index = roundTrip.index

\* A round trip of two UNDOs and two REDOs, from a collection that is not
\* empty, is complete.
RoundTripOfTwoDone ==
    /\ roundTrip.phase = "redo" /\ roundTrip.undone = 0
    /\ roundTrip.made = 2
    /\ roundTrip.elements # << >>

----------------------------------------------------------------------------
(* Properties of DRAW_DOWN, CHANGE_TEXT, UNDO and REDO in the states the    *)
(* handlers reach (Spec).                                                   *)

\* The element is the zero-size element of a kind at a point: a stroke of
\* the one sample, or a shape or text with both corners at the point.
ZeroSizeAt(element, type, point) ==
    /\ element.type = type
    /\ IF type = "BRUSH"
       THEN element.points = << point >>
       ELSE /\ element.x1 = point[1] /\ element.y1 = point[2]
            /\ element.x2 = point[1] /\ element.y2 = point[2]

\* The state a DRAW_DOWN at the point returns once the tool is selected.
AfterDrawDown(tool, point) ==
    Reduce2(boardState,
            Action("CHANGE_TOOL", tool, UNDEF, NoPoint, UNDEFINED, UNDEF, UNDEF, UNDEF),
            Action("DRAW_DOWN", UNDEF, UNDEF, point, ToolboxSize(tool),
                   ToolboxStroke(tool), ToolboxFill(tool), UNDEF))

SelectedPosition ==
    IF IsRef(selectedElement) THEN heap[selectedElement].id + 1 ELSE 0

\* C22: on text-area blur, CHANGE_TEXT rebuilds the selected element, the
\* one the preceding pointer-down with the text tool created, as a text
\* element with the committed text at the same anchor (x1, y1), leaves
\* every other element unchanged and rewrites no element of another kind,
\* whatever happened between the pointer-down and the blur.
CommitTextRebuildsSelected ==
    [][textAreaBlurHandler =>
          /\ threw' = ""
          /\ elements' # UndefinedArray
          /\ SelectedPosition \in DOMAIN elements'
          /\ IsRef(elements'[SelectedPosition])
          /\ LET new == heap'[elements'[SelectedPosition]]
             IN  /\ new.type = "TEXT"
                 /\ new.textEle.text \in Texts
                 /\ new.x1 = heap[selectedElement].x1
                 /\ new.y1 = heap[selectedElement].y1
          /\ Len(elements') = Len(elements)
          /\ \A k \in DOMAIN elements :
                (k # SelectedPosition \/ Contents(elements, heap)[k].type # "TEXT") =>
                    Contents(elements', heap')[k] = Contents(elements, heap)[k]]_vars

----------------------------------------------------------------------------
(* Properties of UNDO and REDO, whatever was dispatched before              *)
(* (SpecReducer).                                                           *)

\* The state r differs from the state only in index, which is the given
\* one, and in elements, which are the snapshot at that index.
MovedTo(r, newIndex) ==
    /\ r.threw = ""
    /\ r.index = newIndex
    /\ r.elements = history[newIndex + 1]
    /\ r.history = history
    /\ r.heap = heap
    /\ r.activeToolItem = activeToolItem
    /\ r.toolActionType = toolActionType
    /\ r.selectedElement = selectedElement

\* C23: UNDO with index > 0 sets index to index - 1 and elements to
\* history[index - 1]; REDO with index < length(history) - 1 sets index to
\* index + 1 and elements to history[index + 1]; both leave history, the
\* active tool, the mode and the selected element unchanged.
UndoRedoMoveIndex ==
    threw = "" =>
        /\ index > 0 =>
              MovedTo(boardReducer(boardState, Plain("UNDO")), index - 1)
        /\ index < Len(history) - 1 =>
              MovedTo(boardReducer(boardState, Plain("REDO")), index + 1)

\* An UNDO has been made in the middle of history, with an element selected
\* and a mode other than NONE: the elements are the snapshot at index, and
\* differ from the snapshots before and after it.
UndoneInMidHistory ==
    /\ threw = ""
    /\ index = 1 /\ Len(history) = 3
    /\ elements = history[2]
    /\ history[1] # history[2] /\ history[3] # history[2]
    /\ selectedElement # NULL /\ toolActionType # "NONE"

----------------------------------------------------------------------------
(* Properties of the modes, whenever undo and redo are triggered (Spec). *)

\* The reference occurs in a snapshot of history.
InHistory(ref) ==
    \E k \in DOMAIN history : \E j \in DOMAIN history[k] : history[k][j] = ref

\* C25: whenever the mode is DRAWING, the live collection is not empty and
\* its last element is the uncommitted element that the most recent
\* DRAW_DOWN created: it is the selected element and is in no snapshot of
\* history.
DrawingOnPendingElement ==
    (toolActionType = "DRAWING" /\ threw = "") =>
        /\ elements # UndefinedArray
        /\ elements # << >>
        /\ IsRef(elements[Len(elements)])
        /\ elements[Len(elements)] = selectedElement
        /\ ~InHistory(elements[Len(elements)])

\* C26: whenever the mode is WRITING, selectedElement is not null, its id is
\* a valid index into the live collection, and the element at that index
\* is a text element.
WritingOnTextElement ==
    (toolActionType = "WRITING" /\ threw = "") =>
        /\ IsRef(selectedElement)
        /\ elements # UndefinedArray
        /\ SelectedPosition \in DOMAIN elements
        /\ IsRef(elements[SelectedPosition])
        /\ heap[elements[SelectedPosition]].type = "TEXT"

----------------------------------------------------------------------------
(* Properties of the first snapshot (SpecReducer). *)

\* The state after UNDO has been repeated until it is a no-op.
RECURSIVE UndoUntilNoOp(_)
UndoUntilNoOp(s) ==
    LET r == boardReducer(s, Plain("UNDO"))
    IN  IF r = s THEN s ELSE UndoUntilNoOp(r)

\* C27, as stated: in every reachable state history[0] is the empty
\* collection, and repeating UNDO until it becomes a no-op ends with an
\* empty board (elements = []) at index 0.
UndoEndsWithEmptyBoard ==
    threw = "" =>
        /\ history[1] = << >>
        /\ UndoUntilNoOp(boardState).index = 0
        /\ UndoUntilNoOp(boardState).elements = << >>

\* C27, amended: history[0] is the empty collection in every reachable
\* state, and repeating UNDO until it becomes a no-op ends at index 0, with
\* an empty board if at least one UNDO took effect (index > 0) and with the
\* live elements untouched otherwise.
UndoEndsAtFirstSnapshot ==
    threw = "" =>
        /\ history[1] = << >>
        /\ UndoUntilNoOp(boardState).index = 0
        /\ UndoUntilNoOp(boardState).elements = (IF index > 0 THEN << >> ELSE elements)

\* Three snapshots have been committed and the last one is current: two
\* UNDOs take effect before the third is a no-op on the empty board.
TwoUndosToEmptyBoard ==
    /\ threw = "" /\ index = 2 /\ Len(history) = 3
    /\ elements \notin { << >>, UndefinedArray }
    /\ history[2] # << >>
    /\ UndoUntilNoOp(boardState).elements = << >>

====
